---------------------------- MODULE Spec2Model ----------------------------
(***************************************************************************)
(* Model of server/index.js of IDEXd: the startup IIFE, the keepalive      *)
(* (heartbeat) loop with its staleness bookkeeping, and the SIGINT         *)
(* handler with shutdown().                                                *)
(*                                                                         *)
(* One action is one turn of the Node event loop: a callback or the        *)
(* continuation of an await, run to its next await that needs I/O.         *)
(* Continuations that are only microtasks run in the same action, except   *)
(* the SIGINT handler's, which is an action of its own (SigintExit) with    *)
(* every other action disabled until it has run.                           *)
(* The clock advances in quanta of the setInterval period.                 *)
(***************************************************************************)
EXTENDS Integers, Sequences, FiniteSets, TLC

\* ---- bounds of the model ----
MaxClock == 8        \* the clock runs from 0 to MaxClock periods
MaxBlock == 3        \* block numbers stay within 1..MaxBlock
MaxInFlight == 2     \* ticks awaiting their request or their log append

\* ---- program constants ----
MAX_OFFLINE_TIME == 3*60*1000
Period == 30000
\* Imported from ./constants; the model uses a small value and keeps block
\* numbers at or above IDEX_FIRST_BLOCK - 1.
IDEX_FIRST_BLOCK == 2
NoExit == 0 - 1
NoBlock == 0 - 1
NoTime == 0 - 1
NoResponse == 0 - 2

VARIABLES
  pc,               \* position of the startup IIFE
  server,           \* TRUE once buildServer() has assigned the server
  statusBound,      \* the status API listener is bound
  coldWallet,       \* TRUE when the variable holds an address
  account,          \* TRUE when the hot wallet was decrypted
  passphraseSet,    \* process.env.PASSPHRASE is non-empty
  worker,           \* TRUE once runner() has assigned the worker
  firstBlock,       \* argument given to Worker.build
  currentBlock,     \* worker.currentBlock (NoBlock while there is no worker)
  readyFired,       \* the worker has emitted 'ready'
  readyListener,    \* runningWorker.on('ready', ...) is registered
  keepAliveInterval,\* the variable holds a timer handle
  timerActive,      \* that timer has not been cleared
  due,              \* time of the timer's next firing
  now,              \* Date.now()
  hasBeenOnline,
  timeSinceLastBlockUpdate,
  previousWorkerBlock,
  previousWorkerBlockTime,
  reqPending,       \* number of ticks awaiting request(...)
  appPending,       \* ticks awaiting fs.appendFile(...): how many, per class
                    \* of the outcome of their try/catch
  ticked,           \* keepalive() has been called
  immediateTicks,   \* calls of keepalive() made by startKeepAlive itself
  timersCreated,    \* calls of setInterval
  lastRecord,       \* the last line given to fs.appendFile('downtime.log')
  statusFile,       \* keepAlive.status last given to worker.writeStatus
  rejectedTicks,    \* classes of the ticks whose promise was rejected
  shutdownCalls,    \* calls of shutdown()
  dbClosed,         \* db._closed
  releaseOrder,     \* release steps called by shutdown(), in order
  releaseStatus,    \* state of each release step when shutdown() has thrown
  shutdownError,    \* what shutdown() threw
  exitCode,         \* NoExit while the process runs
  aborted,          \* the fatal startup failure that occurred, "none" if none
  forceSync,        \* FORCE_SYNC === '1', as runner() read it
  lastTrade,        \* highest persisted trade block when runner() ran; both
                    \* are kept until runner() returns
  statusResponse    \* lastScannedBlock of the response to GET /status that
                    \* the last step sent, NoResponse when it sent none

startVars == <<pc, server, statusBound, coldWallet, account, passphraseSet, worker,
               firstBlock, readyListener>>
workerVars == <<currentBlock, readyFired>>
timerVars == <<keepAliveInterval, timerActive, due, timersCreated>>
hbVars == <<hasBeenOnline, timeSinceLastBlockUpdate, previousWorkerBlock,
            previousWorkerBlockTime, appPending, lastRecord, statusFile>>
tickVars == <<reqPending, ticked, immediateTicks, rejectedTicks>>
shutVars == <<shutdownCalls, dbClosed, releaseOrder, releaseStatus,
              shutdownError, exitCode>>
auxVars == <<aborted, forceSync, lastTrade, statusResponse>>
vars == <<startVars, workerVars, timerVars, now, hbVars, tickVars, shutVars, auxVars>>

Steps == {"server", "store", "worker", "marker"}

\* A step that serves no status read sends no response.
NoStatusRead == statusResponse' = NoResponse

\* How the try/catch of a tick can end: no wallet, a 200 response, another
\* response, the request rejected, keepAliveHeaders threw.
Outcomes == {"noid", "200", "non200", "reject", "sign"}

\* A tick is "failed" when its request got a non-200 response or raised
\* (rejected request, keepAliveHeaders threw), "passed" otherwise.
Classes == {"failed", "passed"}
ClassOf(outcome) == IF outcome \in {"non200", "reject", "sign"} THEN "failed" ELSE "passed"

Appending == appPending["failed"] + appPending["passed"]
InFlight == reqPending + Appending

\* The process is alive and no SIGINT handler is between its await and its exit.
Running == exitCode = NoExit /\ shutdownCalls = 0

Init ==
  /\ pc = "waitFor"
  /\ server = FALSE
  /\ statusBound = FALSE
  /\ coldWallet = FALSE
  /\ account = FALSE
  /\ passphraseSet = TRUE
  /\ worker = FALSE
  /\ firstBlock = NoBlock
  /\ currentBlock = NoBlock
  /\ readyFired = FALSE
  /\ readyListener = FALSE
  /\ keepAliveInterval = FALSE
  /\ timerActive = FALSE
  /\ due = 0
  /\ now = 0
  /\ hasBeenOnline = FALSE
  /\ timeSinceLastBlockUpdate = 0
  /\ previousWorkerBlock = 0
  /\ previousWorkerBlockTime = 0
  /\ reqPending = 0
  /\ appPending = [c \in Classes |-> 0]
  /\ ticked = FALSE
  /\ immediateTicks = 0
  /\ timersCreated = 0
  /\ lastRecord = [at |-> NoTime, last |-> NoTime]
  /\ statusFile = "none"
  /\ rejectedTicks = {}
  /\ shutdownCalls = 0
  /\ dbClosed = FALSE
  /\ releaseOrder = <<>>
  /\ releaseStatus = [s \in Steps |-> "none"]
  /\ shutdownError = "none"
  /\ exitCode = NoExit
  /\ aborted = "none"
  /\ forceSync = FALSE
  /\ lastTrade = NoBlock
  /\ statusResponse = NoResponse


\* ------------------------------------------------------------------------
\* Startup IIFE
\* ------------------------------------------------------------------------

\* The gate without its return: a failed gate goes on like a passed one.
AfterGate_NoReturn(ok, autoMigrate) ==
  IF autoMigrate THEN "migrate" ELSE "loadWallet"

\* Lines 194-198: where the IIFE goes after db.waitFor(10) resolved to ok.
AfterGate(ok, autoMigrate) ==
  IF ~ok THEN "returned"
  ELSE IF autoMigrate THEN "migrate" ELSE "loadWallet"

\* if (!await db.waitFor(10)) return; then the AUTO_MIGRATE test.  When the
\* IIFE returns here this file has bound no listener and created no timer:
\* nothing is left to run and Node ends the process with status 0.
WaitFor ==
  /\ Running /\ pc = "waitFor"
  /\ \E ok \in BOOLEAN, autoMigrate \in BOOLEAN :
       /\ pc' = AfterGate(ok, autoMigrate)
       /\ aborted' = IF ~ok THEN "gate" ELSE aborted
  /\ exitCode' = IF pc' = "returned" THEN 0 ELSE exitCode
  /\ UNCHANGED <<server, statusBound, coldWallet, account, passphraseSet,
                 worker, firstBlock, readyListener>>
  /\ UNCHANGED <<workerVars, timerVars, now, hbVars, tickVars>>
  /\ UNCHANGED <<shutdownCalls, dbClosed, releaseOrder, releaseStatus, shutdownError>>
  /\ UNCHANGED <<forceSync, lastTrade>> /\ NoStatusRead

\* await migrate(); a failure is caught and ends in process.exit(1).
Migrate ==
  /\ Running /\ pc = "migrate"
  /\ \E ok \in BOOLEAN :
       IF ok THEN pc' = "loadWallet" /\ exitCode' = exitCode /\ aborted' = aborted
             ELSE pc' = pc /\ exitCode' = 1 /\ aborted' = "migration"
  /\ UNCHANGED <<server, statusBound, coldWallet, account, passphraseSet,
                 worker, firstBlock, readyListener>>
  /\ UNCHANGED <<workerVars, timerVars, now, hbVars, tickVars>>
  /\ UNCHANGED <<shutdownCalls, dbClosed, releaseOrder, releaseStatus, shutdownError>>
  /\ UNCHANGED <<forceSync, lastTrade>> /\ NoStatusRead

\* loadWallet(): r is where the try block stops, cw whether settings.coldWallet
\* is present.  coldWallet is assigned before the decryption is attempted and
\* PASSPHRASE is cleared only after it succeeded.
LoadWalletResult(r, cw) ==
  [coldWallet |-> IF r = "readfail" THEN coldWallet ELSE cw,
   account |-> IF r = "ok" THEN TRUE ELSE account,
   passphraseSet |-> IF r = "ok" THEN FALSE ELSE passphraseSet]

LoadWallet ==
  /\ Running /\ pc = "loadWallet"
  /\ \E r \in {"readfail", "decryptfail", "ok"}, cw \in BOOLEAN :
       LET res == LoadWalletResult(r, cw) IN
         /\ coldWallet' = res.coldWallet
         /\ account' = res.account
         /\ passphraseSet' = res.passphraseSet
  /\ pc' = "waitForRpc"
  /\ UNCHANGED <<server, statusBound, worker, firstBlock, readyListener>>
  /\ UNCHANGED <<workerVars, timerVars, now, hbVars, tickVars, shutVars>>
  /\ UNCHANGED <<aborted, forceSync, lastTrade>> /\ NoStatusRead

\* await waitForRpc(): returns once the RPC endpoint answers.
WaitForRpc ==
  /\ Running /\ pc = "waitForRpc"
  /\ pc' = "buildServer"
  /\ UNCHANGED <<server, statusBound, coldWallet, account, passphraseSet,
                 worker, firstBlock, readyListener>>
  /\ UNCHANGED <<workerVars, timerVars, now, hbVars, tickVars, shutVars>>
  /\ UNCHANGED <<aborted, forceSync, lastTrade>> /\ NoStatusRead

\* buildServer(): with SSL the key and certificate are read first; a failed
\* read rejects the IIFE, which nothing catches.
BuildServer ==
  /\ Running /\ pc = "buildServer"
  /\ \E ssl \in BOOLEAN, readOk \in BOOLEAN :
       IF ssl /\ ~readOk
       THEN pc' = "rejected" /\ server' = server
       ELSE pc' = "api" /\ server' = TRUE
  /\ UNCHANGED <<statusBound, coldWallet, account, passphraseSet,
                 worker, firstBlock, readyListener>>
  /\ UNCHANGED <<workerVars, timerVars, now, hbVars, tickVars, shutVars>>
  /\ UNCHANGED <<aborted, forceSync, lastTrade>> /\ NoStatusRead

\* api(): resolves in the callback of server.listen.
Api ==
  /\ Running /\ pc = "api"
  /\ pc' = "statusApi"
  /\ UNCHANGED <<server, statusBound, coldWallet, account, passphraseSet,
                 worker, firstBlock, readyListener>>
  /\ UNCHANGED <<workerVars, timerVars, now, hbVars, tickVars, shutVars>>
  /\ UNCHANGED <<aborted, forceSync, lastTrade>> /\ NoStatusRead

\* statusApi(): binds the status listener only when a port is configured.
StatusApi ==
  /\ Running /\ pc = "statusApi"
  /\ \E port \in BOOLEAN : statusBound' = port
  /\ pc' = "runner"
  /\ UNCHANGED <<server, coldWallet, account, passphraseSet,
                 worker, firstBlock, readyListener>>
  /\ UNCHANGED <<workerVars, timerVars, now, hbVars, tickVars, shutVars>>
  /\ UNCHANGED <<aborted, forceSync, lastTrade>> /\ NoStatusRead

\* The resume block without the step back by one.
FirstBlock_SameBlock(force, trade) ==
  IF force THEN IDEX_FIRST_BLOCK
  ELSE IF trade # NoBlock THEN trade ELSE IDEX_FIRST_BLOCK

\* runner(), first half: the block to resume from.  trade is the highest
\* persisted trade block, NoBlock when no trade is persisted.
FirstBlock(force, trade) ==
  IF force THEN IDEX_FIRST_BLOCK
  ELSE IF trade # NoBlock THEN trade - 1 ELSE IDEX_FIRST_BLOCK

Runner ==
  /\ Running /\ pc = "runner"
  /\ \E force \in BOOLEAN, queryOk \in BOOLEAN,
        trade \in {NoBlock} \cup (IDEX_FIRST_BLOCK .. MaxBlock) :
       IF ~force /\ ~queryOk
       THEN /\ pc' = "rejected" /\ firstBlock' = firstBlock
            /\ UNCHANGED <<forceSync, lastTrade>>
       ELSE /\ pc' = "build" /\ firstBlock' = FirstBlock(force, trade)
            /\ forceSync' = force /\ lastTrade' = trade
  /\ UNCHANGED <<server, statusBound, coldWallet, account, passphraseSet,
                 worker, readyListener>>
  /\ UNCHANGED <<workerVars, timerVars, now, hbVars, tickVars, shutVars>>
  /\ UNCHANGED aborted /\ NoStatusRead


\* ------------------------------------------------------------------------
\* keepalive()
\* ------------------------------------------------------------------------

\* The no-wallet branch without its assignment to hasBeenOnline.
NoWalletOnline_Unset == hasBeenOnline

\* Line 117: with no cold wallet the tick sets hasBeenOnline.
NoWalletOnline == TRUE

\* Any response counted as online, whatever its status.
OnlineAfter_AnyResponse(r) == IF r \in {"200", "non200"} THEN TRUE ELSE hasBeenOnline

\* hasBeenOnline assigned from the status of the response.
OnlineAfter_FromStatus(r) == IF r = "reject" THEN hasBeenOnline ELSE r = "200"

\* Lines 102-107: hasBeenOnline after a response with the given status, or
\* after the catch block when the request was rejected ("reject").
OnlineAfter(r) == IF r = "200" THEN TRUE ELSE hasBeenOnline

\* Lines 124-130: the staleness bookkeeping of the finally block, for the
\* value hbo of hasBeenOnline that the try block left.
StaleAfter(hbo) ==
  IF hbo /\ currentBlock = previousWorkerBlock
  THEN now - previousWorkerBlockTime
  ELSE timeSinceLastBlockUpdate

BlockAfter(hbo) ==
  IF hbo /\ currentBlock # previousWorkerBlock
  THEN currentBlock ELSE previousWorkerBlock

BlockTimeAfter(hbo) ==
  IF hbo /\ currentBlock # previousWorkerBlock
  THEN now ELSE previousWorkerBlockTime

\* The record written once per stall: only when the threshold is crossed.
AppendsRecord_Once(hbo, stale) ==
  hbo /\ stale > MAX_OFFLINE_TIME /\ timeSinceLastBlockUpdate <= MAX_OFFLINE_TIME

\* Lines 124 and 131: the condition under which the record is appended.
AppendsRecord(hbo, stale) == hbo /\ stale > MAX_OFFLINE_TIME

\* Lines 108-114: worker.writeStatus is called with the response's status, on
\* the two outcomes that have a response.
StatusAfter(outcome) ==
  IF outcome \in {"200", "non200"} THEN outcome ELSE statusFile

\* The end of a tick whose try/catch ended as outcome and left hbo in
\* hasBeenOnline: the status write and the finally block, up to the await of
\* fs.appendFile.
Finally(outcome, hbo) ==
  LET stale == StaleAfter(hbo)
      app == AppendsRecord(hbo, stale)
  IN /\ hasBeenOnline' = hbo
     /\ timeSinceLastBlockUpdate' = stale
     /\ previousWorkerBlock' = BlockAfter(hbo)
     /\ previousWorkerBlockTime' = BlockTimeAfter(hbo)
     /\ appPending' = IF app THEN [appPending EXCEPT ![ClassOf(outcome)] = @ + 1]
                             ELSE appPending
     /\ lastRecord' = IF app THEN [at |-> now, last |-> BlockTimeAfter(hbo)]
                             ELSE lastRecord
     /\ statusFile' = StatusAfter(outcome)

\* keepalive() up to its first await: with a cold wallet the request is sent
\* unless building the signed headers throws; otherwise the tick runs through
\* its finally block at once.
Keepalive ==
  /\ ticked' = TRUE
  /\ IF coldWallet
     THEN \E signOk \in BOOLEAN :
            IF signOk
            THEN /\ reqPending' = reqPending + 1
                 /\ UNCHANGED hbVars
            ELSE /\ Finally("sign", hasBeenOnline)
                 /\ UNCHANGED reqPending
     ELSE /\ Finally("noid", NoWalletOnline)
          /\ UNCHANGED reqPending
  /\ UNCHANGED rejectedTicks

\* startKeepAlive(): one keepalive() call, then setInterval(keepalive, 30000).
StartKeepAlive ==
  /\ Keepalive
  /\ immediateTicks' = immediateTicks + 1
  /\ keepAliveInterval' = TRUE
  /\ timerActive' = TRUE
  /\ due' = now + Period
  /\ timersCreated' = timersCreated + 1

\* As RunnerBuilt, with startKeepAlive() called as soon as runner() resolves
\* and not from the 'ready' listener.
RunnerBuilt_Early ==
  /\ Running /\ pc = "build"
  /\ \E emitsNow \in BOOLEAN :
       /\ pc' = "done"
       /\ worker' = TRUE
       /\ currentBlock' = firstBlock
       /\ readyFired' = emitsNow
       /\ readyListener' = TRUE
  /\ StartKeepAlive
  /\ forceSync' = FALSE /\ lastTrade' = NoBlock
  /\ UNCHANGED <<server, statusBound, coldWallet, account, passphraseSet, firstBlock>>
  /\ UNCHANGED <<now, shutVars, aborted>> /\ NoStatusRead

\* runner(), second half, and the end of the IIFE: Worker.build resolves, the
\* worker is assigned (it starts at the block it was built with),
\* getTransactions() is called and the 'ready' listener is registered.  emitsNow: the worker emits 'ready' before the listener exists
\* (inside getTransactions(), or while it was being built).
RunnerBuilt ==
  /\ Running /\ pc = "build"
  /\ \E buildOk \in BOOLEAN, emitsNow \in BOOLEAN :
       IF buildOk
       THEN /\ pc' = "done"
            /\ worker' = TRUE
            /\ currentBlock' = firstBlock
            /\ readyFired' = emitsNow
            /\ readyListener' = TRUE
       ELSE /\ pc' = "rejected"
            /\ UNCHANGED <<worker, currentBlock, readyFired, readyListener>>
  /\ forceSync' = FALSE /\ lastTrade' = NoBlock
  /\ UNCHANGED <<server, statusBound, coldWallet, account, passphraseSet, firstBlock>>
  /\ UNCHANGED <<timerVars, now, hbVars, tickVars, shutVars>>
  /\ UNCHANGED aborted /\ NoStatusRead

\* The worker emits 'ready' (once); the listener, when registered, calls
\* startKeepAlive().
WorkerReady ==
  /\ Running /\ worker /\ ~readyFired
  /\ readyFired' = TRUE
  /\ IF readyListener
     THEN StartKeepAlive
     ELSE UNCHANGED <<timerVars, hbVars, tickVars>>
  /\ UNCHANGED <<startVars, currentBlock, now, shutVars>>
  /\ UNCHANGED <<aborted, forceSync, lastTrade>> /\ NoStatusRead

\* The interval timer fires and calls keepalive().
TimerFire ==
  /\ Running /\ timerActive /\ now >= due
  /\ InFlight < MaxInFlight
  /\ due' = due + Period
  /\ Keepalive
  /\ UNCHANGED <<immediateTicks, keepAliveInterval, timerActive, timersCreated>>
  /\ UNCHANGED <<startVars, workerVars, now, shutVars>>
  /\ UNCHANGED <<aborted, forceSync, lastTrade>> /\ NoStatusRead

\* The await of request(...) ends: with a response (status 200 or another),
\* or rejected; the rest of the try block, the catch and the finally run.
Response ==
  /\ Running /\ reqPending > 0
  /\ \E r \in {"200", "non200", "reject"} : Finally(r, OnlineAfter(r))
  /\ reqPending' = reqPending - 1
  /\ UNCHANGED <<ticked, immediateTicks, rejectedTicks>>
  /\ UNCHANGED <<startVars, workerVars, timerVars, now, shutVars>>
  /\ UNCHANGED <<aborted, forceSync, lastTrade>> /\ NoStatusRead

\* The await of fs.appendFile ends; when it is rejected the promise of that
\* keepalive() call is rejected, and nothing handles it.
AppendDone ==
  /\ Running
  /\ \E c \in Classes, ok \in BOOLEAN :
       /\ appPending[c] > 0
       /\ appPending' = [appPending EXCEPT ![c] = @ - 1]
       /\ rejectedTicks' = IF ok THEN rejectedTicks ELSE rejectedTicks \cup {c}
  /\ UNCHANGED <<hasBeenOnline, timeSinceLastBlockUpdate, previousWorkerBlock,
                 previousWorkerBlockTime, lastRecord, statusFile>>
  /\ UNCHANGED <<reqPending, ticked, immediateTicks>>
  /\ UNCHANGED <<startVars, workerVars, timerVars, now, shutVars>>
  /\ UNCHANGED <<aborted, forceSync, lastTrade>> /\ NoStatusRead

\* The status handler without its test of the worker handle.
LastScannedBlock_Unguarded == currentBlock

\* Line 178: worker ? worker.currentBlock : 0.
LastScannedBlock == IF worker THEN currentBlock ELSE 0

\* GET /status is served by the listener that statusApi() bound.
StatusRead ==
  /\ Running /\ statusBound
  /\ statusResponse' = LastScannedBlock
  /\ UNCHANGED <<startVars, workerVars, timerVars, now, hbVars, tickVars, shutVars>>
  /\ UNCHANGED <<aborted, forceSync, lastTrade>>

\* The worker processes a block (worker.currentBlock is updated by the worker).
WorkerAdvance ==
  /\ Running /\ worker /\ currentBlock < MaxBlock
  /\ currentBlock' = currentBlock + 1
  /\ UNCHANGED <<startVars, readyFired, timerVars, now, hbVars, tickVars, shutVars>>
  /\ UNCHANGED <<aborted, forceSync, lastTrade>> /\ NoStatusRead

\* Time passes, one period at a time; a timer that is due fires first.
Advance ==
  /\ Running /\ now < MaxClock * Period
  /\ ~(timerActive /\ now >= due)
  /\ now' = now + Period
  /\ UNCHANGED <<startVars, workerVars, timerVars, hbVars, tickVars, shutVars>>
  /\ UNCHANGED <<aborted, forceSync, lastTrade>> /\ NoStatusRead


\* ------------------------------------------------------------------------
\* shutdown() and the SIGINT handler
\* ------------------------------------------------------------------------

\* shutdown() without its clearInterval.
ClearInterval_Skipped == timerActive

\* Line 220: if (keepAliveInterval) clearInterval(keepAliveInterval).
ClearInterval == IF keepAliveInterval THEN FALSE ELSE timerActive

\* Lines 221-226.  The elements of the array literal are evaluated in order,
\* each one starting its release step, before `new Promise.mapSeries` is
\* applied; a call that throws ends the evaluation there.  Promise.mapSeries
\* is not a constructor, so when all four elements were evaluated the `new`
\* throws.  store, wrk: whether db.sequelize.close() and worker.close() return
\* ("pending": the step is under way, its promise not yet settled) or throw
\* ("threw").  No step's promise is awaited or given a handler.
ShutdownRelease(store, wrk) ==
  LET s1 == IF server THEN <<"server">> ELSE <<>>
      st1 == [s \in Steps |-> IF s = "server" /\ server THEN "pending" ELSE "none"]
      st2 == [st1 EXCEPT !["store"] = store]
      st3 == [st2 EXCEPT !["worker"] = wrk]
      st4 == [st3 EXCEPT !["marker"] = "pending"]
  IN IF store = "threw"
     THEN [order |-> s1 \o <<"store">>, status |-> st2, error |-> "store"]
     ELSE IF ~worker
     THEN [order |-> s1 \o <<"store">>, status |-> st2,
           error |-> "workerUndefined"]
     ELSE IF wrk = "threw"
     THEN [order |-> s1 \o <<"store", "worker">>, status |-> st3,
           error |-> "worker"]
     ELSE [order |-> s1 \o <<"store", "worker", "marker">>, status |-> st4,
           error |-> "mapSeries"]

\* The SIGINT handler up to `await shutdown()`: shutdown() runs to its throw.
Sigint ==
  /\ Running
  /\ shutdownCalls' = shutdownCalls + 1
  /\ dbClosed' = TRUE
  /\ timerActive' = ClearInterval
  /\ \E store \in {"threw", "pending"}, wrk \in {"threw", "pending"} :
       LET res == ShutdownRelease(store, wrk) IN
         /\ releaseOrder' = res.order
         /\ releaseStatus' = res.status
         /\ shutdownError' = res.error
  /\ UNCHANGED <<keepAliveInterval, due, timersCreated, exitCode>>
  /\ UNCHANGED <<startVars, workerVars, now, hbVars, tickVars>>
  /\ UNCHANGED <<aborted, forceSync, lastTrade>> /\ NoStatusRead

\* The handler's continuation: shutdown() has rejected, the finally block
\* calls process.exit(1).  It is a microtask of the turn that ran Sigint, so
\* no other callback runs in between.
SigintExit ==
  /\ exitCode = NoExit /\ shutdownCalls > 0
  /\ exitCode' = 1
  /\ UNCHANGED <<shutdownCalls, dbClosed, releaseOrder, releaseStatus, shutdownError>>
  /\ UNCHANGED <<startVars, workerVars, timerVars, now, hbVars, tickVars>>
  /\ UNCHANGED <<aborted, forceSync, lastTrade>> /\ NoStatusRead

Next ==
  \/ WaitFor
  \/ Migrate
  \/ LoadWallet
  \/ WaitForRpc
  \/ BuildServer
  \/ Api
  \/ StatusApi
  \/ Runner
  \/ RunnerBuilt
  \/ WorkerReady
  \/ TimerFire
  \/ Response
  \/ AppendDone
  \/ WorkerAdvance
  \/ StatusRead
  \/ Advance
  \/ Sigint
  \/ SigintExit

Spec == Init /\ [][Next]_vars


\* ------------------------------------------------------------------------
\* Steps of a tick, as seen in a transition
\* ------------------------------------------------------------------------

\* keepalive() is called in this step.
TickBegins == TimerFire \/ (WorkerReady /\ readyListener)

\* The finally block of a tick runs in this step: at once for a tick that sent
\* no request, at the end of the request's await otherwise.
TickFinally == Response \/ (TickBegins /\ reqPending' = reqPending)

\* The same, for a tick whose request got a non-200 response or raised.
FailedTickFinally ==
  \/ /\ Response
     /\ \E r \in {"non200", "reject"} : Finally(r, OnlineAfter(r))
  \/ TickBegins /\ coldWallet /\ reqPending' = reqPending

\* fs.appendFile is called in this step.
AppendCalled == Appending' = Appending + 1

\* loadWallet() has returned: the IIFE is at or past line 207.
LoaderReturned == pc \notin {"waitFor", "migrate", "loadWallet", "returned"}

\* ------------------------------------------------------------------------
\* Claims
\* ------------------------------------------------------------------------

\* C1: no heartbeat tick (immediate or timer-driven) has begun, and no timer
\* exists, unless the worker's 'ready' has fired and runner() has published the
\* worker handle.
C1_NoTickBeforeReady ==
  (ticked \/ timerActive \/ timersCreated > 0) => (readyFired /\ worker)

\* C1 witness: a tick has begun after 'ready' fired.
C1_Witness == ticked /\ readyFired /\ worker /\ immediateTicks = 1

\* C2 (as claimed): whenever 'ready' has fired, the heartbeat loop has been
\* activated exactly once: one immediate tick, one timer.
C2_ActivatedOnceOnReady ==
  readyFired => (immediateTicks = 1 /\ timersCreated = 1)

\* C2 witness: 'ready' fired before the listener was registered and nothing
\* was activated.
C2_Missed == readyFired /\ readyListener /\ timersCreated = 0 /\ ~ticked

\* C3 (as claimed): a shutdown after a complete startup calls the four release
\* steps once each, in order, whatever an earlier step does.
C3_AllStepsAttempted ==
  (shutdownCalls > 0 /\ pc = "done") =>
    releaseOrder = <<"server", "store", "worker", "marker">>

\* C3 witness: the store close threw and the worker was never closed.
C3_StoreThrewWorkerSkipped ==
  /\ shutdownCalls > 0 /\ pc = "done"
  /\ releaseStatus["store"] = "threw"
  /\ releaseStatus["worker"] = "none" /\ releaseStatus["marker"] = "none"

\* C4 (as claimed): a shutdown before the worker handle is published does not
\* fail on the missing worker, and still calls the listener close (when a
\* server exists), the store close and the status-marker removal.
C4_ToleratesMissingWorker ==
  (shutdownCalls > 0 /\ ~worker /\ releaseStatus["store"] # "threw") =>
    /\ shutdownError # "workerUndefined"
    /\ releaseStatus["store"] # "none"
    /\ releaseStatus["marker"] # "none"
    /\ (server => releaseStatus["server"] # "none")

\* C4 witness: shutdown() threw on worker.close() of an undefined worker,
\* after the listener and store closes, and the marker was not removed.
C4_ThrewOnMissingWorker ==
  /\ shutdownCalls > 0 /\ ~worker /\ server
  /\ shutdownError = "workerUndefined"
  /\ releaseOrder = <<"server", "store">>

\* C5 (as claimed), the case of a changed block: on a tick that evaluates
\* staleness (hasBeenOnline is true) and sees worker.currentBlock differ from
\* the block of the previous tick, the stored staleness becomes 0 and the
\* reference time becomes the current time.
C5_ResetOnChange ==
  [][(TickFinally /\ hasBeenOnline' /\ currentBlock # previousWorkerBlock) =>
       (timeSinceLastBlockUpdate' = 0 /\ previousWorkerBlockTime' = now)]_vars

\* C5 witness: the block just changed and the stored staleness is not 0.
C5_StaleKept ==
  /\ hasBeenOnline /\ previousWorkerBlockTime = now
  /\ previousWorkerBlock = currentBlock
  /\ timeSinceLastBlockUpdate > 0

\* The time since the observed block number last changed, as a tick that runs
\* now observes it.
ObservedStaleness ==
  IF currentBlock # previousWorkerBlock THEN 0 ELSE now - previousWorkerBlockTime

\* C6 (as claimed): a tick appends a downtime record exactly when the node has
\* been online and the time since the observed block number last changed is
\* above MAX_OFFLINE_TIME.
C6_AppendIffStale ==
  [][TickFinally =>
       (AppendCalled <=> (hasBeenOnline' /\ ObservedStaleness > MAX_OFFLINE_TIME))]_vars

\* C6 witness: a record whose last-advance time is its own detection time.
C6_RecordOnAdvance == lastRecord.at # NoTime /\ lastRecord.at = lastRecord.last

\* C7 (as claimed): a tick whose request got a non-200 response or raised
\* does not set hasBeenOnline, leaves the timer running, and its promise is
\* never rejected.
C7_FailedTickNeverRejects ==
  [][/\ FailedTickFinally =>
         (hasBeenOnline' = hasBeenOnline /\ timerActive' /\ exitCode' = NoExit)
     /\ "failed" \notin rejectedTicks']_vars

\* C7 witness: the promise of a failed tick was rejected, by the failed
\* append of its downtime record.
C7_FailedTickRejected == "failed" \in rejectedTicks /\ timerActive

\* C7, what the code does guarantee: a failed tick does not set
\* hasBeenOnline, nothing is rejected when its try/catch ends, only shutdown()
\* stops the timer, and only a failed append rejects a failed tick's promise.
C7_FailedTickContained ==
  [][/\ FailedTickFinally =>
         /\ hasBeenOnline' = hasBeenOnline
         /\ timerActive' /\ exitCode' = NoExit
         /\ rejectedTicks' = rejectedTicks
     /\ (timerActive /\ ~timerActive') => Sigint
     /\ ("failed" \in rejectedTicks' /\ "failed" \notin rejectedTicks) =>
           (AppendDone /\ appPending["failed"] > 0)]_vars

\* C8: a tick that begins with no cold wallet configured sends no keepalive
\* request and leaves hasBeenOnline true.
C8_NoIdentityTick ==
  [][(TickBegins /\ ~coldWallet) =>
       (reqPending' = reqPending /\ hasBeenOnline')]_vars

\* C8 witness: a tick has run with no cold wallet.
C8_Witness == ticked /\ ~coldWallet /\ hasBeenOnline

\* C9 (as claimed): when the process has exited after a SIGINT, its status is
\* 1 and no release step that was started is still pending.
C9_ExitAfterRelease ==
  (shutdownCalls > 0 /\ exitCode # NoExit) =>
    (exitCode = 1 /\ \A s \in Steps : releaseStatus[s] # "pending")

\* C9 witness: the process has exited with all four steps started and none
\* finished.
C9_ExitedWhilePending ==
  /\ exitCode = 1 /\ Len(releaseOrder) = 4
  /\ \A s \in Steps : releaseStatus[s] = "pending"

\* C10: once shutdown() has been called the timer, if any, is cancelled, and
\* from then on no tick begins and no timer is created.
C10_NoTickAfterShutdown ==
  [][/\ shutdownCalls' > 0 => ~timerActive'
     /\ shutdownCalls > 0 =>
           UNCHANGED <<ticked, immediateTicks, timersCreated, due, reqPending>>]_vars

\* C10 witness: shutdown() cancelled a running timer and the process exited.
C10_Witness ==
  shutdownCalls > 0 /\ keepAliveInterval /\ ~timerActive /\ exitCode = 1

C12_NoIdentityAfterFailedLoad ==
  (LoaderReturned /\ ~account) => (~coldWallet /\ reqPending = 0)

\* C12 witness: the decryption failed, startup completed, and a tick ran with
\* the cold-wallet address set.
C12_IdentityKept == pc = "done" /\ ~account /\ coldWallet /\ ticked

\* C13: the block given to Worker.build is IDEX_FIRST_BLOCK under forced
\* resync whatever is persisted; otherwise one less than the highest persisted
\* trade block, and IDEX_FIRST_BLOCK when no trade is persisted.
C13_FirstBlock ==
  pc = "build" =>
    /\ forceSync => firstBlock = IDEX_FIRST_BLOCK
    /\ (~forceSync /\ lastTrade # NoBlock) => firstBlock + 1 = lastTrade
    /\ (~forceSync /\ lastTrade = NoBlock) => firstBlock = IDEX_FIRST_BLOCK

\* C13 witness: forced resync with a persisted trade whose predecessor block
\* is not IDEX_FIRST_BLOCK.
C13_Witness ==
  /\ pc = "build" /\ forceSync /\ lastTrade = IDEX_FIRST_BLOCK
  /\ firstBlock = IDEX_FIRST_BLOCK

\* C14 (as claimed): every tick writes its outcome to the status artifact
\* before it ends; a tick with no identity writes that outcome.
C14_EveryTickWritesStatus ==
  [][/\ TickFinally => statusFile' # "none"
     /\ (TickBegins /\ ~coldWallet) => statusFile' = "noid"]_vars

\* C14 witness: a tick with no identity has ended and nothing was written.
C14_NothingWritten ==
  ticked /\ ~coldWallet /\ hasBeenOnline /\ reqPending = 0 /\ statusFile = "none"

\* C16: a status read returns 0 while there is no worker handle and the
\* worker's current block (a block number, never a failure) once there is;
\* the status listener is bound while there is no worker yet.
C16_StatusRead ==
  [][/\ StatusRead =>
          /\ ~worker => statusResponse' = 0
          /\ worker => statusResponse' = currentBlock
          /\ statusResponse' \in 0 .. MaxBlock
     /\ (statusBound' /\ ~statusBound) => ~worker']_vars

\* C16 witness: a read was served between the bind and the worker's start.
C16_Witness == statusBound /\ ~worker /\ statusResponse = 0

\* C17 (as claimed): once loadWallet() has returned, PASSPHRASE is empty.
C17_PassphraseCleared == LoaderReturned => ~passphraseSet

\* C17 witness: startup completed after a failed load, PASSPHRASE still set.
C17_PassphraseKept == pc = "done" /\ ~account /\ passphraseSet

\* C18 (as claimed): at most one tick is awaiting its request or its append.
C18_OneTickInFlight == InFlight <= 1

\* C18 witness: two requests are pending, the second sent by the timer.
C18_TicksOverlap == reqPending = 2 /\ immediateTicks = 1 /\ now >= Period

\* C19: hasBeenOnline starts false and never goes from true to false.
C19_OnlineMonotonic ==
  /\ ~hasBeenOnline
  /\ [][hasBeenOnline => hasBeenOnline']_vars

\* C19 witness: a failed tick ran while hasBeenOnline was true, shutdown
\* followed, and it is still true.
C19_Witness ==
  hasBeenOnline /\ appPending["failed"] > 0 /\ statusFile = "non200" /\ exitCode = 1

\* C20: on a tick of a node that has been online, with the block unchanged
\* since the previous tick and more than MAX_OFFLINE_TIME since it last
\* advanced, exactly one record is appended, it carries that last-advance
\* time, and the last-advance time is kept.
C20_RecordPerTick ==
  [][(/\ TickFinally /\ hasBeenOnline
      /\ currentBlock = previousWorkerBlock
      /\ now - previousWorkerBlockTime > MAX_OFFLINE_TIME) =>
       /\ AppendCalled
       /\ lastRecord' = [at |-> now, last |-> previousWorkerBlockTime]
       /\ previousWorkerBlockTime' = previousWorkerBlockTime]_vars

\* C20 witness: two ticks of one stall have each appended a record, the later
\* one two periods past the threshold.
C20_Witness ==
  /\ Appending = 2
  /\ lastRecord.at = lastRecord.last + MAX_OFFLINE_TIME + 2 * Period

=============================================================================
